---- MODULE Spec2Model ----
(***************************************************************************)
(* Import scanner (scanner_gui_v0.7.py): file path -> fully-qualified     *)
(* module name, extraction and resolution of import statements, the       *)
(* module map built by ImportScanner.scan, the dependency graph and       *)
(* Tarjan's strongly connected components, and the two entry modes (CLI   *)
(* and interactive) that present the model.                               *)
(*                                                                         *)
(* Representation of Python values:                                        *)
(*   str     a sequence of one-character strings, "a.py" is               *)
(*           <<"a", ".", "p", "y">>, "" is << >>                          *)
(*   None    the value None below, distinct from every str                *)
(*   list    a sequence                                                    *)
(*   dict    a sequence of [k |-> key, v |-> value] in insertion order,   *)
(*           keys unique                                                   *)
(*   set     a sequence without repetition: the elements in the order     *)
(*           the set iterates them                                         *)
(*   Path    the sequence of its parts (each a str)                       *)
(***************************************************************************)
EXTENDS Integers, Sequences, FiniteSets

VARIABLES
    tree,         \* the directory tree the project root names (the file system)
    argv,         \* "cli": a project root was given on the command line; "gui": none
    pc,           \* position of the program
    caller,       \* who called scan(): "cli" (print_cli_output) or "gui" (rescan)
    todo,         \* scan(): the files the loops have still to finish, the current one first
    module_info,  \* ImportScanner.module_info
    scans,        \* number of scan() calls that have returned (capped)
    shown,        \* the last presentation of the model (tree widget, graph, JSON, CLI text)
    prev_info,    \* module_info as it was when the scan() in progress was called
                  \* (empty while none is in progress)
    scanned,      \* the .py files the last scan() called had to go through, in order
    pending,      \* _scan_file: the import targets ast.walk has still to reach
    call,         \* arguments of the function under study (pure-function specifications)
    ret           \* its returned value

vars == <<tree, argv, pc, caller, todo, module_info, scans, shown, prev_info, scanned, pending, call, ret>>

(***************************************************************************)
(* Bounds                                                                  *)
(***************************************************************************)
MaxSegs == 3      \* segments of an importing module's FQN (SpecResolve)
MaxLevel == 4     \* leading dots of a from-import (SpecResolve)
MaxEdges == 4     \* edges of a graph (SpecScc)
MaxNodes == 4     \* statements of a parsed file (SpecExtract)
MaxFiles == 4     \* files in a project root named on the command line (Spec)
MaxScans == 1     \* completed scans that are counted (Spec)

(***************************************************************************)
(* Python built-ins                                                        *)
(***************************************************************************)
None == <<"None">>

\* Python truth value of an optional str: None and "" are false.
Truthy(x) == x # None /\ x # << >>

Min(a, b) == IF a <= b THEN a ELSE b
Max(a, b) == IF a >= b THEN a ELSE b

\* seq[:stop] with Python's treatment of a negative or too large stop.
PySliceTo(seq, stop) ==
    LET n == Len(seq)
        e == IF stop < 0 THEN Max(n + stop, 0) ELSE Min(stop, n)
    IN SubSeq(seq, 1, e)

\* seq[start:] for start >= 0.
PySliceFrom(seq, start) == SubSeq(seq, Min(start, Len(seq)) + 1, Len(seq))

\* Index of the first / last occurrence of character ch in s, 0 when there is none.
FindChar(s, ch) ==
    IF \E i \in 1..Len(s) : s[i] = ch
    THEN CHOOSE i \in 1..Len(s) : s[i] = ch /\ \A j \in 1..(i - 1) : s[j] # ch
    ELSE 0

RFindChar(s, ch) ==
    IF \E i \in 1..Len(s) : s[i] = ch
    THEN CHOOSE i \in 1..Len(s) : s[i] = ch /\ \A j \in (i + 1)..Len(s) : s[j] # ch
    ELSE 0

\* s.split(sep) for a one-character separator.
RECURSIVE split(_, _)
split(s, sep) ==
    LET i == FindChar(s, sep)
    IN IF i = 0 THEN <<s>>
       ELSE <<SubSeq(s, 1, i - 1)>> \o split(SubSeq(s, i + 1, Len(s)), sep)

\* sep.join(parts)
RECURSIVE join(_, _)
join(sep, parts) ==
    IF parts = << >> THEN << >>
    ELSE IF Len(parts) = 1 THEN parts[1]
    ELSE parts[1] \o <<sep>> \o join(sep, Tail(parts))

\* s.endswith(suffix)
endswith(s, suffix) ==
    /\ Len(suffix) <= Len(s)
    /\ SubSeq(s, Len(s) - Len(suffix) + 1, Len(s)) = suffix

(***************************************************************************)
(* resolve_from_import                                                     *)
(***************************************************************************)
\* Line 28 with the slice one too long: pkg_parts[:-level].
DropLevelsOffByOne(pkg_parts, level) ==
    IF level > 1 THEN PySliceTo(pkg_parts, -level) ELSE pkg_parts

\* Line 28: pkg_parts[: -level + 1] if level > 1 else pkg_parts
DropLevels(pkg_parts, level) ==
    IF level > 1 THEN PySliceTo(pkg_parts, -level + 1) ELSE pkg_parts

resolve_from_import(current_fqn, level, module) ==
    LET pkg0 == PySliceTo(split(current_fqn, "."), -1)
        pkg_parts == IF level # 0 THEN DropLevels(pkg0, level) ELSE pkg0
    IN IF Truthy(module)
       THEN join(".", pkg_parts \o <<module>>)
       ELSE join(".", pkg_parts)

(***************************************************************************)
(* dict                                                                    *)
(***************************************************************************)
DictKeys(d) == [i \in 1..Len(d) |-> d[i].k]

DictHas(d, key) == \E i \in 1..Len(d) : d[i].k = key

\* d.get(key, default)
DictGet(d, key, default) ==
    IF DictHas(d, key)
    THEN d[CHOOSE i \in 1..Len(d) : d[i].k = key].v
    ELSE default

\* d[key] = value: a present key keeps its position, a new one goes last.
DictSet(d, key, value) ==
    IF DictHas(d, key)
    THEN [i \in 1..Len(d) |-> IF d[i].k = key THEN [k |-> key, v |-> value] ELSE d[i]]
    ELSE Append(d, [k |-> key, v |-> value])

Range(seq) == {seq[i] : i \in 1..Len(seq)}

(***************************************************************************)
(* strongly_connected_components                                           *)
(* st is the state the nested dfs closes over: index, stack, onstack,     *)
(* indices, lowlink, sccs.                                                 *)
(***************************************************************************)
\* Line 49 without the on-stack test: every visited w lowers lowlink[v].
BackEdgeAnyVisited(st, w) == TRUE

\* Line 49: elif w in onstack
BackEdge(st, w) == w \in st.onstack

\* Line 59: if len(comp) > 1
KeepComponent(comp) == Len(comp) > 1

\* Lines 53-58: pop the stack into comp until v has been popped.
RECURSIVE PopComponent(_, _, _)
PopComponent(v, st, comp) ==
    LET w == st.stack[Len(st.stack)]
        st1 == [st EXCEPT !.stack = SubSeq(st.stack, 1, Len(st.stack) - 1),
                          !.onstack = st.onstack \ {w}]
        comp1 == Append(comp, w)
    IN IF w = v THEN [st |-> st1, comp |-> comp1]
       ELSE PopComponent(v, st1, comp1)

RECURSIVE dfs(_, _, _)
RECURSIVE dfsEdges(_, _, _, _)
\* Lines 45-50: the loop over graph.get(v, ()), ws being what is left of it.
dfsEdges(graph, v, ws, st) ==
    IF ws = << >> THEN st
    ELSE LET w == Head(ws)
         IN IF ~DictHas(st.indices, w)
            THEN LET s == dfs(graph, w, st)
                 IN dfsEdges(graph, v, Tail(ws),
                        [s EXCEPT !.lowlink = DictSet(s.lowlink, v,
                            Min(DictGet(s.lowlink, v, 0), DictGet(s.lowlink, w, 0)))])
            ELSE IF BackEdge(st, w)
            THEN dfsEdges(graph, v, Tail(ws),
                        [st EXCEPT !.lowlink = DictSet(st.lowlink, v,
                            Min(DictGet(st.lowlink, v, 0), DictGet(st.indices, w, 0)))])
            ELSE dfsEdges(graph, v, Tail(ws), st)

\* Lines 39-60.
dfs(graph, v, st) ==
    LET st1 == [st EXCEPT !.indices = DictSet(st.indices, v, st.index),
                          !.lowlink = DictSet(st.lowlink, v, st.index),
                          !.index = st.index + 1,
                          !.stack = Append(st.stack, v),
                          !.onstack = st.onstack \cup {v}]
        st2 == dfsEdges(graph, v, DictGet(graph, v, << >>), st1)
    IN IF DictGet(st2.lowlink, v, 0) = DictGet(st2.indices, v, 0)
       THEN LET p == PopComponent(v, st2, << >>)
            IN IF KeepComponent(p.comp)
               THEN [p.st EXCEPT !.sccs = Append(p.st.sccs, p.comp)]
               ELSE p.st
       ELSE st2

\* Lines 62-64: the loop over the graph's keys, vs being what is left of it.
RECURSIVE sccRoots(_, _, _)
sccRoots(graph, vs, st) ==
    IF vs = << >> THEN st
    ELSE IF ~DictHas(st.indices, Head(vs))
         THEN sccRoots(graph, Tail(vs), dfs(graph, Head(vs), st))
         ELSE sccRoots(graph, Tail(vs), st)

strongly_connected_components(graph) ==
    sccRoots(graph, DictKeys(graph),
             [index |-> 0, stack |-> << >>, onstack |-> {},
              indices |-> << >>, lowlink |-> << >>, sccs |-> << >>]).sccs

(***************************************************************************)
(* Syntax trees (module ast)                                               *)
(* A node is [kind, names, level, module, body]:                           *)
(*   "Import"      names: the alias names of `import n1, n2`               *)
(*   "ImportFrom"  level, module of `from <level dots><module> import ..`  *)
(*   "Block"       any other statement; body: its child statements in the  *)
(*                 order ast.iter_child_nodes yields them, which for the   *)
(*                 statement lists of def/class/if/for/while/with/try is   *)
(*                 the order of the source text                            *)
(*   "Module"      the root; body: the top-level statements                *)
(***************************************************************************)
Import(names) ==
    [kind |-> "Import", names |-> names, level |-> 0, module |-> None, body |-> << >>]

ImportFrom(level, module) ==
    [kind |-> "ImportFrom", names |-> << >>, level |-> level, module |-> module,
     body |-> << >>]

Block(body) ==
    [kind |-> "Block", names |-> << >>, level |-> 0, module |-> None, body |-> body]

Module(body) ==
    [kind |-> "Module", names |-> << >>, level |-> 0, module |-> None, body |-> body]

iter_child_nodes(node) == node.body

\* A stack instead of a queue: children are visited before the siblings left to do.
WalkExtendDepthFirst(rest, children) == children \o rest

\* ast.walk: todo.extend(iter_child_nodes(node)) after todo.popleft()
WalkExtend(rest, children) == rest \o children

\* ast.walk(tree): the nodes in the order they are yielded, todo being the deque.
RECURSIVE ast_walk(_)
ast_walk(queue) ==
    IF queue = << >> THEN << >>
    ELSE <<Head(queue)>>
         \o ast_walk(WalkExtend(Tail(queue), iter_child_nodes(Head(queue))))

(***************************************************************************)
(* ImportScanner._scan_file, lines 92-98: what the loop over ast.walk      *)
(* appends to module_info[fqn]["imports"], nodes being what is left of it. *)
(***************************************************************************)
RECURSIVE CollectImports(_, _)
CollectImports(nodes, fqn) ==
    IF nodes = << >> THEN << >>
    ELSE LET node == Head(nodes)
             got == IF node.kind = "Import" THEN node.names
                    ELSE IF node.kind = "ImportFrom"
                    THEN <<resolve_from_import(fqn, node.level, node.module)>>
                    ELSE << >>
         IN got \o CollectImports(Tail(nodes), fqn)

\* A file is [name, parses, body]: parses is FALSE when open() or ast.parse() raises.
\* Lines 85-98 on the module map: the record of fqn gets the file's imports appended.
_scan_file(info, file, fqn) ==
    IF ~file.parses THEN info
    ELSE LET rec == DictGet(info, fqn, [path |-> << >>, imports |-> << >>])
         IN DictSet(info, fqn,
                [rec EXCEPT !.imports =
                    rec.imports \o CollectImports(ast_walk(<<Module(file.body)>>), fqn)])

(***************************************************************************)
(* to_fqn                                                                  *)
(***************************************************************************)
\* PurePath.relative_to for a path under root.
relative_to(path, root) == PySliceFrom(path, Len(root))

\* PurePath.with_suffix(""): the last part loses its suffix, the text from its
\* last dot when that dot is neither its first nor its last character.
with_suffix_empty(path) ==
    LET name == path[Len(path)]
        i == RFindChar(name, ".")
        stem == IF 1 < i /\ i < Len(name) THEN SubSeq(name, 1, i - 1) ELSE name
    IN [path EXCEPT ![Len(path)] = stem]

to_fqn(project_root, file_path) ==
    join(".", with_suffix_empty(relative_to(file_path, project_root)))

(***************************************************************************)
(* os.walk and ImportScanner.scan                                          *)
(* A directory is [files, dirs], dirs a sequence of [name, dir]; the tree  *)
(* is [is_dir, top]: is_dir is FALSE when the root path does not exist or  *)
(* is not a directory, and os.walk then yields nothing.                    *)
(***************************************************************************)
RECURSIVE walk_dir(_, _)
RECURSIVE walk_dirs(_, _)
walk_dirs(path, dirs) ==
    IF dirs = << >> THEN << >>
    ELSE walk_dir(Append(path, Head(dirs).name), Head(dirs).dir)
         \o walk_dirs(path, Tail(dirs))

\* Top-down: (root, files) of a directory, then of each subdirectory in turn.
walk_dir(path, dir) ==
    <<[root |-> path, files |-> dir.files]>> \o walk_dirs(path, dir.dirs)

os_walk(project_root, t) ==
    IF t.is_dir THEN walk_dir(project_root, t.top) ELSE << >>

\* Lines 77-78: the (root, file) pairs the two nested loops go through, in order.
RECURSIVE WalkFiles(_)
WalkFiles(walked) ==
    IF walked = << >> THEN << >>
    ELSE [i \in 1..Len(Head(walked).files) |->
             [root |-> Head(walked).root, file |-> Head(walked).files[i]]]
         \o WalkFiles(Tail(walked))

DotPy == <<".", "p", "y">>

\* str(path): the parts joined by "/"; the first part of an absolute path is its
\* root "/", which is written once.
PathStr(path) ==
    IF path # << >> /\ path[1] = <<"/">>
    THEN <<"/">> \o join("/", Tail(path))
    ELSE join("/", path)

\* Lines 79-83: the body of the inner loop for one (root, file) pair.
ScanOne(info, project_root, item) ==
    IF endswith(item.file.name, DotPy)
    THEN LET path == Append(item.root, item.file.name)
             fqn == to_fqn(project_root, path)
         IN _scan_file(DictSet(info, fqn, [path |-> PathStr(path), imports |-> << >>]),
                       item.file, fqn)
    ELSE info

\* The loops of scan() from a map `info` over the pairs `items`.
RECURSIVE ScanAll(_, _, _)
ScanAll(info, project_root, items) ==
    IF items = << >> THEN info
    ELSE ScanAll(ScanOne(info, project_root, Head(items)), project_root, Tail(items))

(***************************************************************************)
(* build_graph and find_cycles                                             *)
(***************************************************************************)
Perms(S) ==
    {s \in [1..Cardinality(S) -> S] : \A i, j \in 1..Cardinality(S) : i # j => s[i] # s[j]}

\* set(list): the distinct elements; the order a set of str iterates in depends
\* on the process's string hashing, so every order is a possible value.
PySets(list) == Perms(Range(list))

\* Lines 100-104: every graph build_graph can return for a module map.
RECURSIVE build_graph(_)
build_graph(info) ==
    IF info = << >> THEN {<< >>}
    ELSE {<<[k |-> Head(info).k, v |-> s]>> \o g :
             s \in PySets(Head(info).v.imports), g \in build_graph(Tail(info))}

\* Lines 106-108: every cycle list find_cycles can return.
find_cycles(info) == {strongly_connected_components(g) : g \in build_graph(info)}

(***************************************************************************)
(* Values for the variables a specification does not use                   *)
(***************************************************************************)
NoTree == [is_dir |-> FALSE, top |-> [files |-> << >>, dirs |-> << >>]]

NoShow ==
    [kind |-> "none", modules |-> << >>, nodes |-> << >>, edges |-> {},
     cycles |-> << >>, in_cycle |-> {}, status |-> << >>,
     after_scans |-> 0]

ScannerIdle ==
    /\ tree = NoTree
    /\ argv = "none"
    /\ caller = "none"
    /\ todo = << >>
    /\ module_info = << >>
    /\ scans = 0
    /\ shown = NoShow
    /\ prev_info = << >>
    /\ scanned = << >>
    /\ pending = << >>

ScannerUnchanged ==
    UNCHANGED <<tree, argv, caller, todo, module_info, scans, shown, prev_info, scanned, pending>>

SeqsUpTo(S, lo, hi) == UNION {[1..n -> S] : n \in lo..hi}

(***************************************************************************)
(* SpecResolve: resolve_from_import on every input in the bounds           *)
(***************************************************************************)
PkgSubMod == <<"p", "k", "g", ".", "s", "u", "b", ".", "m", "o", "d">>
PkgSubSibling ==
    <<"p", "k", "g", ".", "s", "u", "b", ".", "s", "i", "b", "l", "i", "n", "g">>
TopMod == <<"t", "o", "p", ".", "m", "o", "d">>
Sibling == <<"s", "i", "b", "l", "i", "n", "g">>
Other == <<"o", "t", "h", "e", "r">>

ResolveSegs == {<<"p">>, <<"q">>}

\* FQNs as to_fqn produces them: one or more non-empty segments joined by dots.
ResolveFqns ==
    {join(".", segs) : segs \in SeqsUpTo(ResolveSegs, 1, MaxSegs)} \cup {PkgSubMod, TopMod}

\* ast gives ImportFrom.module as None or a non-empty dotted name.
ResolveModules == {None, <<"x">>, <<"x", ".", "y">>, Sibling, Other}

InitResolve ==
    /\ ScannerIdle
    /\ pc = "resolve_call"
    /\ call \in [fqn : ResolveFqns, level : 0..MaxLevel, module : ResolveModules]
    /\ ret = None

Resolve ==
    /\ pc = "resolve_call"
    /\ ret' = resolve_from_import(call.fqn, call.level, call.module)
    /\ pc' = "resolve_done"
    /\ UNCHANGED call
    /\ ScannerUnchanged

NextResolve == Resolve

SpecResolve == InitResolve /\ [][NextResolve]_vars

(***************************************************************************)
(* SpecScc: strongly_connected_components on every graph in the bounds     *)
(***************************************************************************)
\* The modules of the graphs under study, in the order of the graph's keys.
SccKeys == <<(<<"a">>), (<<"b">>), (<<"c">>), (<<"d">>)>>

\* A name that is imported and is no module of the project.
External == <<"x">>

SccTargets == Range(SccKeys) \cup {External}

\* The number of edges of a graph.
RECURSIVE EdgeCount(_)
EdgeCount(graph) ==
    IF graph = << >> THEN 0 ELSE Len(Head(graph).v) + EdgeCount(Tail(graph))

\* The graph under study starts with the modules of SccKeys, which import nothing.
InitScc ==
    /\ ScannerIdle
    /\ pc = "scc_call"
    /\ call = [i \in 1..Len(SccKeys) |-> [k |-> SccKeys[i], v |-> << >>]]
    /\ ret = << >>

\* The graph under study gets one more edge: a name a module's set does not
\* hold yet is iterated last. Every graph of at most MaxEdges edges, with every
\* iteration order of its sets, is built this way.
AddEdge ==
    /\ pc = "scc_call"
    /\ EdgeCount(call) < MaxEdges
    /\ \E i \in 1..Len(call), w \in SccTargets :
          /\ w \notin Range(call[i].v)
          /\ call' = [call EXCEPT ![i].v = Append(@, w)]
    /\ UNCHANGED <<pc, ret>>
    /\ ScannerUnchanged

Scc ==
    /\ pc = "scc_call"
    /\ ret' = strongly_connected_components(call)
    /\ pc' = "scc_done"
    /\ UNCHANGED call
    /\ ScannerUnchanged

NextScc == AddEdge \/ Scc

SpecScc == InitScc /\ [][NextScc]_vars

(***************************************************************************)
(* SpecExtract: _scan_file on every syntax tree in the bounds              *)
(***************************************************************************)
ExtractFqn == <<"p", ".", "m">>

\* import x / import y, x / from . import n
ExtractLeaves ==
    {Import(<<(<<"x">>)>>), Import(<<(<<"y">>), (<<"x">>)>>), ImportFrom(1, None)}

\* Statements with n nodes in all, and sequences of statements with n nodes in all.
RECURSIVE Stmts(_)
RECURSIVE Bodies(_)
Stmts(n) ==
    (IF n = 1 THEN ExtractLeaves ELSE {}) \cup {Block(b) : b \in Bodies(n - 1)}

Bodies(n) ==
    IF n = 0 THEN {<< >>}
    ELSE UNION {{<<s>> \o b : s \in Stmts(k), b \in Bodies(n - k)} : k \in 1..n}

InitExtract ==
    /\ ScannerIdle
    /\ pc = "extract_call"
    /\ call \in {[name |-> <<"m", ".", "p", "y">>, parses |-> TRUE, body |-> b] :
                   b \in UNION {Bodies(n) : n \in 0..MaxNodes}}
    /\ ret = << >>

Extract ==
    /\ pc = "extract_call"
    /\ ret' = DictGet(_scan_file(<<[k |-> ExtractFqn,
                                    v |-> [path |-> << >>, imports |-> << >>]]>>,
                                 call, ExtractFqn),
                      ExtractFqn, [imports |-> << >>]).imports
    /\ pc' = "extract_done"
    /\ UNCHANGED call
    /\ ScannerUnchanged

NextExtract == Extract

SpecExtract == InitExtract /\ [][NextExtract]_vars

(***************************************************************************)
(* Spec: the program, from its start in either entry mode                  *)
(***************************************************************************)
\* Line 72: Path(project_root).resolve(), an absolute path.
ProjectRoot == <<(<<"/">>), (<<"r">>)>>

Py(c) == <<c>> \o DotPy

SrcFile(name, body) == [name |-> name, parses |-> TRUE, body |-> body]

\* A file whose text ast.parse rejects.
BadFile(name) == [name |-> name, parses |-> FALSE, body |-> << >>]

FileA == SrcFile(Py("a"), <<Import(<<(<<"b">>)>>)>>)                \* import b
FileA2 == SrcFile(Py("a"), <<Import(<<(<<"b">>), (<<"c">>)>>)>>)    \* import b, c
FileB == SrcFile(Py("b"), <<Import(<<(<<"c">>)>>)>>)                \* import c
FileB2 == SrcFile(Py("b"), <<Import(<<(<<"a">>)>>)>>)               \* import a
FileC == SrcFile(Py("c"), <<ImportFrom(1, None)>>)                  \* from . import a
FileC2 == SrcFile(Py("c"), <<Import(<<(<<"a">>)>>)>>)               \* import a
FileD == SrcFile(Py("d"), << >>)                                    \* no imports
FileE == BadFile(Py("e"))

FilePool == {FileA, FileA2, FileB, FileB2, FileC, FileC2, FileD, FileE}

\* p/m.py: `from x import y`, then `def f(): import a`; p/n.txt is no source file.
PkgFiles ==
    {SrcFile(Py("m"), <<ImportFrom(0, <<"x">>), Block(<<Import(<<(<<"a">>)>>)>>)>>),
     SrcFile(<<"n", ".", "t", "x", "t">>, << >>)}

\* The package directory p, its files in either order of listing.
PkgDirs ==
    {[name |-> <<"p">>, dir |-> [files |-> fs, dirs |-> << >>]] : fs \in Perms(PkgFiles)}

\* The files of a root named on the command line: at most MaxFiles files of
\* the pool, names distinct, in any order, for os.walk yields the names in the
\* order the file system lists them, which is not sorted.
RootListings ==
    {fs \in SeqsUpTo(FilePool, 0, MaxFiles) :
        \A i, j \in 1..Len(fs) : i # j => fs[i].name # fs[j].name}

\* The files of the working directory the GUI is started in: none, or one file
\* of the pool.
CwdListings == {<< >>} \cup {<<f>> : f \in FilePool}

\* The directories with one of the listings, with or without the package p.
DirTrees(listings) ==
    {[is_dir |-> TRUE, top |-> [files |-> fs, dirs |-> ds]] :
        fs \in listings, ds \in {<< >>} \cup {<<d>> : d \in PkgDirs}}

\* Line 312: the roots the command line can name; one names no directory.
Trees == DirTrees(RootListings) \cup {NoTree}

\* Line 317: os.getcwd(), a directory.
CwdTrees == DirTrees(CwdListings)

\* Line 255: generate_graph writes "graph.html" in the working directory, which
\* in the GUI mode is the project root (line 317).
GraphHtml == SrcFile(<<"g", "r", "a", "p", "h", ".", "h", "t", "m", "l">>, << >>)

\* Lines 271-273: the text json.dump writes is one expression statement when
\* read as Python source: it parses and holds no import.
JsonFile(name) == SrcFile(name, <<Block(<< >>)>>)

\* pyvis's write_html with cdn_resources="local" (lines 124, 144) makes the
\* directory lib beside the page and copies its scripts there; the scripts of
\* lib/bindings stand for them. Lines 146-147 look for lib afterwards.
LibDir ==
    [name |-> <<"l", "i", "b">>,
     dir |-> [files |-> << >>,
              dirs |-> <<[name |-> <<"b", "i", "n", "d", "i", "n", "g", "s">>,
                          dir |-> [files |-> <<SrcFile(<<"u", "t", "i", "l", "s",
                                                         ".", "j", "s">>, << >>)>>,
                                   dirs |-> << >>]]>>]]

\* open(path, "w") and a write: a file of that name is written over in its
\* place; a new file appears wherever the file system lists it.
WithFile(files, file) ==
    IF \E i \in 1..Len(files) : files[i].name = file.name
    THEN {[i \in 1..Len(files) |->
              IF files[i].name = file.name THEN file ELSE files[i]]}
    ELSE {SubSeq(files, 1, k) \o <<file>> \o SubSeq(files, k + 1, Len(files)) :
             k \in 0..Len(files)}

\* A directory made unless one of that name exists.
WithDir(dirs, d) ==
    IF \E i \in 1..Len(dirs) : dirs[i].name = d.name
    THEN {dirs}
    ELSE {SubSeq(dirs, 1, k) \o <<d>> \o SubSeq(dirs, k + 1, Len(dirs)) :
             k \in 0..Len(dirs)}

\* Lines 142-151: write_html inside try/except; lib and the page are written
\* in the working directory, or the error is printed and nothing is written.
GraphWritten(t) ==
    {t} \cup {[t EXCEPT !.top.files = fs, !.top.dirs = ds] :
                 fs \in WithFile(t.top.files, GraphHtml),
                 ds \in WithDir(t.top.dirs, LibDir)}

\* The paths the save dialog returns: b.py in the project root, b.py in its
\* directory p, and a file outside the project root.
ExportPaths ==
    {ProjectRoot \o <<Py("b")>>,
     ProjectRoot \o <<(<<"p">>), Py("b")>>,
     <<(<<"/">>), (<<"o">>), (<<"o", ".", "j", "s", "o", "n">>)>>}

\* The directory after a file is written at the relative path rel; no
\* directory (the empty set) when a directory of rel does not exist, for
\* open() raises then.
RECURSIVE WriteAt(_, _, _)
WriteAt(dir, rel, file) ==
    IF Len(rel) = 1
    THEN {[dir EXCEPT !.files = fs] : fs \in WithFile(dir.files, file)}
    ELSE UNION {{[dir EXCEPT !.dirs[i].dir = d] :
                    d \in WriteAt(dir.dirs[i].dir, Tail(rel), file)} :
                 i \in {j \in 1..Len(dir.dirs) : dir.dirs[j].name = Head(rel)}}

IsUnder(path, root) ==
    Len(path) > Len(root) /\ SubSeq(path, 1, Len(root)) = root

\* The trees json.dump can leave after open(path, "w") succeeded.
Exported(t, path) ==
    IF IsUnder(path, ProjectRoot)
    THEN {[t EXCEPT !.top = d] :
             d \in WriteAt(t.top, relative_to(path, ProjectRoot),
                           JsonFile(path[Len(path)]))}
    ELSE {t}

InCycle(cycles) == UNION {Range(cycles[i]) : i \in 1..Len(cycles)}

\* The characters of the model in the order of their code points.
Alphabet ==
    <<".", "/", "a", "b", "c", "d", "e", "f", "g", "h", "i", "j", "k", "l", "m",
      "n", "o", "p", "q", "r", "s", "t", "u", "v", "w", "x", "y", "z">>

Ord(ch) == CHOOSE i \in 1..Len(Alphabet) : Alphabet[i] = ch

\* s < t for two str: the first character that differs decides, a proper prefix
\* is smaller.
RECURSIVE StrLess(_, _)
StrLess(s, t) ==
    IF t = << >> THEN FALSE
    ELSE IF s = << >> THEN TRUE
    ELSE IF Head(s) = Head(t) THEN StrLess(Tail(s), Tail(t))
    ELSE Ord(Head(s)) < Ord(Head(t))

\* An item put in its place in a list of items sorted by key.
RECURSIVE SortedInsert(_, _)
SortedInsert(items, item) ==
    IF items = << >> THEN <<item>>
    ELSE IF StrLess(item.k, Head(items).k) THEN <<item>> \o items
    ELSE <<Head(items)>> \o SortedInsert(Tail(items), item)

\* sorted(d.items()): the keys of a dict are distinct, so they decide the order.
RECURSIVE sorted_items(_)
sorted_items(d) ==
    IF d = << >> THEN << >>
    ELSE SortedInsert(sorted_items(PySliceTo(d, -1)), d[Len(d)])

\* Lines 229-252 and 113-140: populate_tree() and generate_graph(). The tree
\* widget has one row per module in sorted order, the rows of the modules in a
\* cycle marked; the status bar reads "Scanned n modules | Cycles: k", k
\* counting the distinct vertex sets; the graph has one node per module in the
\* order of the map, red when in a cycle, and one edge per import of a module
\* of the map.
TreeAndGraph(info, cycles) ==
    [kind |-> "tree+graph",
     modules |-> sorted_items(info),
     nodes |-> DictKeys(info),
     edges |-> {e \in Range(DictKeys(info)) \X Range(DictKeys(info)) :
                   e[2] \in Range(DictGet(info, e[1], [imports |-> << >>]).imports)},
     cycles |-> << >>,
     in_cycle |-> InCycle(cycles) \cap Range(DictKeys(info)),
     status |-> <<Len(info), Cardinality({Range(cycles[i]) : i \in 1..Len(cycles)})>>,
     after_scans |-> scans]

\* Lines 294-305: "Scanned n modules", one line per module in sorted order,
\* then the cycles in the order of the list.
CliText(info, cycles) ==
    [kind |-> "cli",
     modules |-> sorted_items(info),
     nodes |-> << >>,
     edges |-> {},
     cycles |-> cycles,
     in_cycle |-> {},
     status |-> <<Len(info)>>,
     after_scans |-> scans]

\* Lines 271-274: {"modules": module_info, "cycles": find_cycles()} as JSON, the
\* modules in the order of the map; the status bar reads "Exported JSON to"
\* and the path.
JsonData(info, cycles, path) ==
    [kind |-> "json",
     modules |-> info,
     nodes |-> << >>,
     edges |-> {},
     cycles |-> cycles,
     in_cycle |-> {},
     status |-> path,
     after_scans |-> scans]

\* Lines 311-317: the root is the command line's argument, which may name no
\* directory, or the working directory.
Init ==
    /\ argv \in {"cli", "gui"}
    /\ tree \in (IF argv = "cli" THEN Trees ELSE CwdTrees)
    /\ pc = "start"
    /\ caller = "none"
    /\ todo = << >>
    /\ module_info = << >>
    /\ scans = 0
    /\ shown = NoShow
    /\ prev_info = << >>
    /\ scanned = << >>
    /\ pending = << >>
    /\ call = << >>
    /\ ret = << >>

\* Lines 311-314: a root on the command line; ImportScanner(project_root), then
\* print_cli_output calls scan().
MainCli ==
    /\ pc = "start"
    /\ argv = "cli"
    /\ module_info' = << >>
    /\ caller' = "cli"
    /\ pc' = "scan_call"
    /\ UNCHANGED <<tree, argv, todo, scans, shown, prev_info, scanned, pending, call, ret>>

\* Lines 315-321: no argument; ImportScanner(os.getcwd()), then
\* ImportTreeViewer.__init__ (lines 157-193) ends with populate_tree() and
\* generate_graph() and the event loop starts.
MainGui ==
    /\ pc = "start"
    /\ argv = "gui"
    /\ module_info' = << >>
    /\ \E cycles \in find_cycles(module_info') :
          shown' = TreeAndGraph(module_info', cycles)
    /\ tree' \in GraphWritten(tree)
    /\ pc' = "idle"
    /\ UNCHANGED <<argv, caller, todo, scans, prev_info, scanned, pending, call, ret>>

\* Line 263: the Rescan action calls scan().
Rescan ==
    /\ pc = "idle"
    /\ caller' = "gui"
    /\ pc' = "scan_call"
    /\ UNCHANGED <<tree, argv, todo, module_info, scans, shown, prev_info, scanned, pending, call, ret>>

IsPy(item) == endswith(item.file.name, DotPy)

\* Line 79: the files of a walk that end in .py.
PyItems(items) == SelectSeq(items, IsPy)

\* scan() without line 76: the previous map is kept and written over.
ScanBeginNoClear ==
    /\ pc = "scan_call"
    /\ prev_info' = module_info
    /\ scanned' = PyItems(WalkFiles(os_walk(ProjectRoot, tree)))
    /\ todo' = WalkFiles(os_walk(ProjectRoot, tree))
    /\ pc' = "scanning"
    /\ UNCHANGED <<tree, argv, caller, module_info, scans, shown, pending, call, ret>>

\* Lines 76-77: scan() clears the map and starts os.walk.
ScanBegin ==
    /\ pc = "scan_call"
    /\ prev_info' = module_info
    /\ scanned' = PyItems(WalkFiles(os_walk(ProjectRoot, tree)))
    /\ module_info' = << >>
    /\ todo' = WalkFiles(os_walk(ProjectRoot, tree))
    /\ pc' = "scanning"
    /\ UNCHANGED <<tree, argv, caller, scans, shown, pending, call, ret>>

\* The path and the FQN of the file the loops are at.
CurPath == Append(Head(todo).root, Head(todo).file.name)

CurFqn == to_fqn(ProjectRoot, CurPath)

\* Lines 78-82: the next file; one that ends in .py gets its record, with no
\* imports yet, and _scan_file is called.
ScanFile ==
    /\ pc = "scanning"
    /\ todo # << >>
    /\ IF endswith(Head(todo).file.name, DotPy)
       THEN /\ module_info' = DictSet(module_info, CurFqn,
                                     [path |-> PathStr(CurPath), imports |-> << >>])
            /\ pc' = "scan_file"
            /\ UNCHANGED todo
       ELSE /\ todo' = Tail(todo)
            /\ UNCHANGED <<module_info, pc>>
    /\ UNCHANGED <<tree, argv, caller, scans, shown, prev_info, scanned, pending, call, ret>>

\* Lines 86-92: the file is read and parsed. When that raises, or the syntax
\* tree holds no import, _scan_file returns; else ast.walk is under way.
ParseFile ==
    /\ pc = "scan_file"
    /\ LET found == IF Head(todo).file.parses
                    THEN CollectImports(ast_walk(<<Module(Head(todo).file.body)>>),
                                        CurFqn)
                    ELSE << >>
       IN IF found = << >>
          THEN /\ pc' = "scanning"
               /\ todo' = Tail(todo)
               /\ UNCHANGED pending
          ELSE /\ pc' = "scan_imports"
               /\ pending' = found
               /\ UNCHANGED todo
    /\ UNCHANGED <<tree, argv, caller, module_info, scans, shown, prev_info, scanned, call, ret>>

\* Lines 93-98: one target is appended to the imports of the file's record;
\* after the last one _scan_file returns.
AppendImport ==
    /\ pc = "scan_imports"
    /\ LET rec == DictGet(module_info, CurFqn, [path |-> << >>, imports |-> << >>])
       IN module_info' = DictSet(module_info, CurFqn,
                             [rec EXCEPT !.imports = Append(rec.imports, Head(pending))])
    /\ pending' = Tail(pending)
    /\ IF Tail(pending) = << >>
       THEN pc' = "scanning" /\ todo' = Tail(todo)
       ELSE UNCHANGED <<pc, todo>>
    /\ UNCHANGED <<tree, argv, caller, scans, shown, prev_info, scanned, call, ret>>

\* os.walk is exhausted: scan() returns to its caller.
ScanReturn ==
    /\ pc = "scanning"
    /\ todo = << >>
    /\ scans' = Min(scans + 1, MaxScans)
    /\ pc' = IF caller = "cli" THEN "cli_print" ELSE "gui_refresh"
    /\ prev_info' = << >>
    /\ UNCHANGED <<tree, argv, caller, todo, module_info, shown, scanned, pending, call, ret>>

\* Lines 291-305: print_cli_output after scan(); the program ends.
CliPrint ==
    /\ pc = "cli_print"
    /\ \E cycles \in find_cycles(module_info) :
          shown' = CliText(module_info, cycles)
    /\ pc' = "exit"
    /\ UNCHANGED <<tree, argv, caller, todo, module_info, scans, prev_info, scanned, pending, call, ret>>

\* Lines 264-265: rescan() after scan(): populate_tree() and generate_graph().
GuiRefresh ==
    /\ pc = "gui_refresh"
    /\ \E cycles \in find_cycles(module_info) :
          shown' = TreeAndGraph(module_info, cycles)
    /\ tree' \in GraphWritten(tree)
    /\ pc' = "idle"
    /\ UNCHANGED <<argv, caller, todo, module_info, scans, prev_info, scanned, pending, call, ret>>

\* Lines 267-274: export_json. Nothing happens when the dialog is cancelled;
\* when open() raises, the exception leaves the slot and PyQt ends the process;
\* otherwise the file is written at the chosen path and the status bar names it.
ExportJson ==
    /\ pc = "idle"
    /\ \E path \in ExportPaths \cup {None} :
          IF ~Truthy(path)
          THEN UNCHANGED <<tree, pc, shown>>
          ELSE \E cycles \in find_cycles(module_info) :
                  \/ /\ pc' = "aborted"
                     /\ UNCHANGED <<tree, shown>>
                  \/ /\ tree' \in Exported(tree, path)
                     /\ shown' = JsonData(module_info, cycles, path)
                     /\ UNCHANGED pc
    /\ UNCHANGED <<argv, caller, todo, module_info, scans, prev_info, scanned, pending, call, ret>>

\* Line 206: Quit closes the window and the event loop ends.
Quit ==
    /\ pc = "idle"
    /\ pc' = "exit"
    /\ UNCHANGED <<tree, argv, caller, todo, module_info, scans, shown, prev_info, scanned, pending, call, ret>>

Next ==
    \/ MainCli
    \/ MainGui
    \/ Rescan
    \/ ScanBegin
    \/ ScanFile
    \/ ParseFile
    \/ AppendImport
    \/ ScanReturn
    \/ CliPrint
    \/ GuiRefresh
    \/ ExportJson
    \/ Quit

Spec == Init /\ [][Next]_vars

(***************************************************************************)
(* Properties of resolve_from_import (SpecResolve)                         *)
(***************************************************************************)
\* The importing module's package parts: all segments of its FQN but the last.
PackageParts(fqn) ==
    LET segs == split(fqn, ".") IN [i \in 1..(Len(segs) - 1) |-> segs[i]]

\* C1: a from-import of level 0 with a module name m resolves to m verbatim,
\* whatever the importing module's FQN.
C1_AbsoluteVerbatim ==
    (pc = "resolve_done" /\ call.level = 0 /\ call.module # None)
        => ret = call.module

\* C8: for level >= 1 the result is the dot-join of the package parts, with
\* their last min(level - 1, |P|) segments dropped, followed by the module name
\* when there is one; ("pkg.sub.mod", 1, "sibling") gives "pkg.sub.sibling" and
\* ("top.mod", 2, "other") gives "other".
C8_RelativeClamped ==
    (pc = "resolve_done" /\ call.level >= 1) =>
        LET P == PackageParts(call.fqn)
            keep == Len(P) - Min(call.level - 1, Len(P))
            kept == [i \in 1..keep |-> P[i]]
        IN /\ ret = join(".", IF call.module # None THEN Append(kept, call.module)
                                                     ELSE kept)
           /\ (call.fqn = PkgSubMod /\ call.level = 1 /\ call.module = Sibling)
                  => ret = PkgSubSibling
           /\ (call.fqn = TopMod /\ call.level = 2 /\ call.module = Other)
                  => ret = Other

\* A level larger than the package depth, with a module name: the package parts
\* are exhausted and the name alone is returned.
C8_Witness ==
    /\ pc = "resolve_done"
    /\ call.level - 1 > Len(PackageParts(call.fqn))
    /\ Len(PackageParts(call.fqn)) >= 1
    /\ call.module = Other
    /\ ret = Other

(***************************************************************************)
(* Properties of strongly_connected_components (SpecScc)                   *)
(***************************************************************************)
GraphEdges(graph) ==
    UNION {{<<graph[i].k, w>> : w \in Range(graph[i].v)} : i \in 1..Len(graph)}

Successors(graph, S) == {e[2] : e \in {d \in GraphEdges(graph) : d[1] \in S}}

RECURSIVE ReachFrom(_, _)
ReachFrom(graph, S) ==
    LET T == S \cup Successors(graph, S)
    IN IF T = S THEN S ELSE ReachFrom(graph, T)

\* The vertices a non-empty path leads to from u.
ReachPlus(graph, u) == ReachFrom(graph, Successors(graph, {u}))

\* The strongly connected component of u.
Component(graph, u) ==
    {u} \cup {w \in ReachPlus(graph, u) : u \in ReachPlus(graph, w)}

\* C5: the vertex sets of the reported cycles are exactly the strongly connected
\* components of size >= 2: pairwise disjoint, maximal, every vertex on a
\* non-empty path back to itself, no component of size 1 (a self-import alone
\* reports nothing), and no name that is not a key of the graph.
C5_SccExact ==
    pc = "scc_done" =>
        /\ \A i \in 1..Len(ret) :
              /\ Len(ret[i]) >= 2
              /\ Cardinality(Range(ret[i])) = Len(ret[i])
              /\ \A v \in Range(ret[i]) :
                    v \in ReachPlus(call, v) /\ v \in Range(DictKeys(call))
        /\ \A i, j \in 1..Len(ret) : i # j => Range(ret[i]) \cap Range(ret[j]) = {}
        /\ {Range(ret[i]) : i \in 1..Len(ret)} =
               {C \in {Component(call, v) : v \in Range(DictKeys(call))} :
                   Cardinality(C) >= 2}

\* A graph with two reported cycles, which share no vertex.
C5_Witness ==
    /\ pc = "scc_done"
    /\ Len(ret) = 2
    /\ Range(ret[1]) \cap Range(ret[2]) = {}
    /\ Range(ret[1]) # {} /\ Range(ret[2]) # {}

(***************************************************************************)
(* Properties of _scan_file (SpecExtract)                                  *)
(***************************************************************************)
ImportTargets(stmt, fqn) ==
    IF stmt.kind = "Import" THEN stmt.names
    ELSE <<resolve_from_import(fqn, stmt.level, stmt.module)>>

\* The import statements of a statement list in the order of the source text,
\* nested statements in place, each with its depth in the syntax tree.
RECURSIVE SourceOrder(_, _)
SourceOrder(body, depth) ==
    IF body = << >> THEN << >>
    ELSE (IF Head(body).kind = "Block"
          THEN SourceOrder(Head(body).body, depth + 1)
          ELSE <<[depth |-> depth, stmt |-> Head(body)]>>)
         \o SourceOrder(Tail(body), depth)

RECURSIVE TargetsOf(_, _)
TargetsOf(entries, fqn) ==
    IF entries = << >> THEN << >>
    ELSE ImportTargets(Head(entries).stmt, fqn) \o TargetsOf(Tail(entries), fqn)

\* The entries of depth d, then of depth d + 1, ..., up to depth `last`.
RECURSIVE ByDepth(_, _, _)
ByDepth(entries, d, last) ==
    IF d > last THEN << >>
    ELSE LET AtDepth(e) == e.depth = d
         IN SelectSeq(entries, AtDepth) \o ByDepth(entries, d + 1, last)

\* C9 as stated: the imports list is in source occurrence order, top to bottom
\* and depth-first through nested blocks, without deduplication.
C9_SourceOrder ==
    pc = "extract_done" => ret = TargetsOf(SourceOrder(call.body, 1), ExtractFqn)

\* C9 amended: the imports list is in breadth-first order of the syntax tree:
\* the targets of the import statements of depth 1 in source order, then those
\* of depth 2 in source order, and so on, without deduplication.
C9_BreadthFirstOrder ==
    pc = "extract_done" =>
        ret = TargetsOf(ByDepth(SourceOrder(call.body, 1), 1, MaxNodes + 1), ExtractFqn)

\* A file where a nested import stands before a top-level one in the text, and
\* the top-level one is recorded first.
C9_Witness ==
    /\ pc = "extract_done"
    /\ LET src == SourceOrder(call.body, 1)
       IN /\ Len(src) = 2
          /\ src[1].depth = 2
          /\ src[2].depth = 1
          /\ src[1].stmt = Import(<<(<<"x">>)>>)
          /\ src[2].stmt = ImportFrom(1, None)
    /\ ret = <<(<<"p">>), (<<"x">>)>>

(***************************************************************************)
(* Properties of the program (Spec)                                        *)
(***************************************************************************)
\* The (root, file) pairs of the .py files the last scan called goes through.
AllItems == scanned

\* The map a scan of the tree ends with.
FullMap == ScanAll(<< >>, ProjectRoot, AllItems)

\* A scan() has returned and none is in progress.
ScanReturned ==
    \/ pc \in {"cli_print", "gui_refresh"}
    \/ scans >= 1 /\ pc \in {"idle", "exit", "aborted"}

\* A graph as the mapping from its keys to their sets of targets.
EdgeSetOf(graph, key) == Range(DictGet(graph, key, << >>))

\* C2: with top-level files a (import b), b (import c), c (from . import a)
\* and d (no imports), the graph is a->{b}, b->{c}, c->{a}, d->{} and there is
\* exactly one cycle, on the vertex set {a, b, c}.
C2_EndToEnd ==
    (/\ ScanReturned
     /\ Len(AllItems) = 4
     /\ Range(AllItems) = {[root |-> ProjectRoot, file |-> f] :
                              f \in {FileA, FileB, FileC, FileD}})
    => /\ \A g \in build_graph(module_info) :
             /\ Range(DictKeys(g)) = {<<"a">>, <<"b">>, <<"c">>, <<"d">>}
             /\ EdgeSetOf(g, <<"a">>) = {<<"b">>}
             /\ EdgeSetOf(g, <<"b">>) = {<<"c">>}
             /\ EdgeSetOf(g, <<"c">>) = {<<"a">>}
             /\ EdgeSetOf(g, <<"d">>) = {}
       /\ \A cycles \in find_cycles(module_info) :
             /\ Len(cycles) = 1
             /\ Range(cycles[1]) = {<<"a">>, <<"b">>, <<"c">>}

\* C3: after a scan, a .py file that cannot be read or parsed has no record in
\* the module map, and every parseable .py file has a record with its full
\* import list.
C3_FaultIsolation ==
    ScanReturned =>
        \A n \in 1..Len(AllItems) :
            LET item == AllItems[n]
                fqn == to_fqn(ProjectRoot, Append(item.root, item.file.name))
            IN endswith(item.file.name, DotPy) =>
                  IF item.file.parses
                  THEN /\ DictHas(module_info, fqn)
                       /\ DictGet(module_info, fqn, [imports |-> << >>]).imports =
                              CollectImports(ast_walk(<<Module(item.file.body)>>), fqn)
                  ELSE ~DictHas(module_info, fqn)

\* C4: when the root does not exist or is not a directory, scan() never returns
\* normally.
C4_InvalidRootFatal == ~tree.is_dir => ~ScanReturned

\* C6: the cycle list presented does not depend on the iteration order of the
\* edge sets: every run on the same module map yields the same list, in the
\* same order of cycles and of vertices, and the map is that of any other scan
\* of the unchanged tree. (While the program is idle or has ended, module_info
\* is the map the text or the JSON last presented was computed from.)
C6_Deterministic ==
    /\ ScanReturned => module_info = FullMap
    /\ (shown.kind \in {"cli", "json"} /\ pc \in {"idle", "exit"}) =>
          \A cycles \in find_cycles(module_info) : cycles = shown.cycles

\* C7: during and after a scan() the current module map is the complete map of
\* the previous scan or the complete map of the new scan.
C7_AtomicSwap ==
    pc \in {"scanning", "scan_file", "scan_imports", "cli_print", "gui_refresh",
            "idle", "exit", "aborted"}
        => module_info \in {prev_info, FullMap}

\* The map of the files the scan under way has finished.
DoneMap ==
    ScanAll(<< >>, ProjectRoot,
            SubSeq(AllItems, 1, Len(AllItems) - Len(PyItems(todo))))

\* All the import targets of the file the scan under way is at.
CurImports ==
    CollectImports(ast_walk(<<Module(Head(todo).file.body)>>), CurFqn)

\* C7 amended: scan() empties the current map in place and refills it file by
\* file and import by import: during a scan the map holds the complete records
\* of the files finished so far and, while a file is being read, the record of
\* that file with the imports found so far, none at first; once scan() has
\* returned it is the complete map of the new scan.
C7_ClearedAndRefilled ==
    /\ pc = "scanning" => module_info = DoneMap
    /\ pc = "scan_file" =>
          module_info = DictSet(DoneMap, CurFqn,
                                [path |-> PathStr(CurPath), imports |-> << >>])
    /\ pc = "scan_imports" =>
          /\ pending # << >>
          /\ Len(pending) <= Len(CurImports)
          /\ pending = SubSeq(CurImports, Len(CurImports) - Len(pending) + 1,
                              Len(CurImports))
          /\ module_info =
                DictSet(DoneMap, CurFqn,
                        [path |-> PathStr(CurPath),
                         imports |-> SubSeq(CurImports, 1,
                                            Len(CurImports) - Len(pending))])
    /\ ScanReturned => module_info = FullMap

\* A rescan under way, at a file of which one import is recorded and another
\* is still to come: the map is neither the previous map nor the new one.
C7_Witness ==
    /\ pc = "scan_imports"
    /\ scans >= 1
    /\ prev_info # << >>
    /\ DoneMap # << >>
    /\ module_info # prev_info
    /\ module_info # FullMap
    /\ pending # << >>
    /\ DictGet(module_info, CurFqn, [imports |-> << >>]).imports # << >>

\* C10: every presentation of the model follows at least one completed scan().
C10_ScanBeforePresent == shown.kind # "none" => shown.after_scans >= 1

====
